---- MODULE Spec2Model ----
(***************************************************************************)
(* Model of the Python XMP metadata tool: the Asset class of               *)
(* xmp_functions.py (merge_flickr_data, merge_csv_data,                    *)
(* retrieve_xmp_metadata, replace_xmp_packet, ...), the schema tables of   *)
(* schemas.py and the batch loop of xmp_tool.py.                           *)
(*                                                                         *)
(* A Python string is a sequence of one-character strings, so that split,  *)
(* strip and join are computed as the code computes them.  "" and [] are   *)
(* both the empty sequence << >>.                                          *)
(***************************************************************************)
EXTENDS Integers, Sequences, FiniteSets, TLC

VARIABLES
    asset,      \* one Asset object driven through its methods (Spec)
    last,       \* the last method call on asset: name, argument, state before it
    ret,        \* what the last retrieve_xmp_metadata call returned
    nops,       \* number of method calls made on asset so far
    assets,     \* main: the list of Asset objects of the batch (SpecMain)
    files,      \* main: the file names load_files found
    args,       \* main: the parsed command line
    csv_metadata, \* main: the loaded csv file, one row per asset or none
    i,          \* main: index of the asset the loop is at
    pc,         \* main: position in main
    data        \* main: the rows gathered for the csv output

vars == <<asset, last, ret, nops, assets, files, args, csv_metadata, i, pc, data>>

assetVars == <<asset, last, ret, nops>>
mainVars == <<assets, files, args, csv_metadata, i, pc, data>>

\* ------------------------------------------------------------------ bounds

\* method calls made on the one asset of Spec (get_xmp_packet not counted)
MaxOps == 2
\* assets in a batch run of main
MaxItems == 2

\* ----------------------------------------------------------- Python strings

RECURSIVE SplitFrom(_, _, _, _, _)
SplitFrom(s, sep, k, cur, acc) ==
    IF k > Len(s) THEN Append(acc, cur)
    ELSE IF s[k] = sep THEN SplitFrom(s, sep, k + 1, << >>, Append(acc, cur))
    ELSE SplitFrom(s, sep, k + 1, Append(cur, s[k]), acc)

\* str.split(sep) for a one-character separator: "".split(",") is [""]
Split(s, sep) == SplitFrom(s, sep, 1, << >>, << >>)

RECURSIVE LStrip(_, _)
LStrip(s, chars) ==
    IF s # << >> /\ Head(s) \in chars THEN LStrip(Tail(s), chars) ELSE s

RECURSIVE RStrip(_, _)
RStrip(s, chars) ==
    IF s # << >> /\ s[Len(s)] \in chars THEN RStrip(SubSeq(s, 1, Len(s) - 1), chars) ELSE s

\* str.strip(chars): drops leading and trailing characters that are in chars
Strip(s, chars) == RStrip(LStrip(s, chars), chars)

RECURSIVE Join(_, _)
\* sep.join(arr)
Join(sep, arr) ==
    IF arr = << >> THEN << >>
    ELSE IF Len(arr) = 1 THEN arr[1]
    ELSE arr[1] \o sep \o Join(sep, Tail(arr))

Range(s) == {s[k] : k \in 1..Len(s)}

\* the orders in which a Python set can be iterated
Orders(S) == {o \in [1..Cardinality(S) -> S] : Range(o) = S}

\* ------------------------------------------------------------------ schemas

Field(prefix, prop, form) == [prefix |-> prefix, prop |-> prop, form |-> form]

\* SCHEMA, flattened in the order "for prefix ... for prop ..." iterates it
SCHEMA ==
    << Field("xmp", "CreateDate", "simple"), Field("xmp", "CreatorTool", "simple"),
       Field("xmp", "Label", "simple"), Field("xmp", "Rating", "simple"),
       Field("photoshop", "AuthorsPosition", "simple"), Field("photoshop", "Instructions", "simple"),
       Field("dc", "creator", "ordered"), Field("dc", "subject", "unordered"),
       Field("dc", "description", "alternative"), Field("dc", "title", "alternative"),
       Field("Iptc4xmpExt", "PersonInImage", "unordered"),
       Field("tiff", "ImageWidth", "simple"), Field("tiff", "ImageLength", "simple"),
       Field("tiff", "Make", "simple"), Field("tiff", "Model", "simple"),
       Field("exifEX", "LensModel", "simple") >>

\* XMPMeta.get_namespace_for_prefix: the registered namespace uri of a prefix
get_namespace_for_prefix(prefix) ==
    CASE prefix = "xmp" -> "http://ns.adobe.com/xap/1.0/"
      [] prefix = "photoshop" -> "http://ns.adobe.com/photoshop/1.0/"
      [] prefix = "dc" -> "http://purl.org/dc/elements/1.1/"
      [] prefix = "Iptc4xmpExt" -> "http://iptc.org/std/Iptc4xmpExt/2008-02-29/"
      [] prefix = "tiff" -> "http://ns.adobe.com/tiff/1.0/"
      [] prefix = "exifEX" -> "http://cipa.jp/exif/1.0/"

FK(key, ns, prop, form) == [key |-> key, ns |-> ns, prop |-> prop, form |-> form]

\* FLICKR_SCHEMA, in the order its items() are iterated
FLICKR_SCHEMA ==
    << FK("id", "http://ns.adobe.com/photoshop/1.0/", "Instructions", "simple"),
       FK("name", "http://purl.org/dc/elements/1.1/", "title", "alternative"),
       FK("description", "http://purl.org/dc/elements/1.1/", "description", "alternative"),
       FK("tags", "http://purl.org/dc/elements/1.1/", "subject", "unordered") >>

\* the number of fields of SCHEMA
NumFields == Len(SCHEMA)

\* the (namespace uri, property name) pairs a packet is looked at through
PropKeys == {<<get_namespace_for_prefix(SCHEMA[k].prefix), SCHEMA[k].prop>> : k \in 1..NumFields}

\* ------------------------------------------------- the packet (libxmp XMPMeta)
\* self.xmp is None, or an XMPMeta object.  props gives, for each property the
\* schemas name, whether it exists and its value: a string (simple), a sequence
\* of strings (ordered, unordered) or a sequence of [lang, value] items with
\* the x-default item first (alternative).  calls counts the writing calls
\* made on the object.  The lookup rules of get_localized_text and
\* set_localized_text are those of the XMP toolkit that libxmp wraps.

NoProp == [ex |-> FALSE, v |-> << >>]
NoCalls == [set |-> 0, append |-> 0, delete |-> 0]
None == [none |-> TRUE, props |-> [k \in PropKeys |-> NoProp], calls |-> NoCalls]

does_property_exist(x, ns, prop) == x.props[<<ns, prop>>].ex

\* mutant: the value read is always the empty string
get_property_Empty(x, ns, prop) == << >>

get_property(x, ns, prop) == x.props[<<ns, prop>>].v

set_property(x, ns, prop, value) ==
    [x EXCEPT !.props[<<ns, prop>>] = [ex |-> TRUE, v |-> value],
              !.calls.set = @ + 1]

\* mutant: every property of the namespace is deleted with it
delete_property_Namespace(x, ns, prop) ==
    [x EXCEPT !.props = [k \in PropKeys |-> IF k[1] = ns THEN NoProp ELSE @[k]],
              !.calls.delete = @ + 1]

delete_property(x, ns, prop) ==
    [x EXCEPT !.props[<<ns, prop>>] = NoProp, !.calls.delete = @ + 1]

count_array_items(x, ns, prop) == Len(x.props[<<ns, prop>>].v)

\* index is 1-based
get_array_item(x, ns, prop, index) == x.props[<<ns, prop>>].v[index]

\* creates the array when the property does not exist
append_array_item(x, ns, prop, item) ==
    [x EXCEPT !.props[<<ns, prop>>] = [ex |-> TRUE, v |-> Append(@.v, item)],
              !.calls.append = @ + 1]

\* "en-US" matches the generic language "en"
GenericOf(lang) ==
    CASE lang = "en-US" -> "en"
      [] lang = "en-GB" -> "en"
      [] OTHER -> lang

Min(S) == CHOOSE m \in S : \A n \in S : m <= n

\* the item a language pair selects: the specific language, else the only or
\* the first item of the generic language, else x-default, else the first item
ChooseLocalizedText(alt, generic, specific) ==
    LET sp == {k \in 1..Len(alt) : alt[k].lang = specific}
        gen == {k \in 1..Len(alt) : GenericOf(alt[k].lang) = generic}
        xd == {k \in 1..Len(alt) : alt[k].lang = "x-default"}
    IN  IF alt = << >> THEN [match |-> "NoValues", k |-> 0]
        ELSE IF sp # {} THEN [match |-> "SpecificMatch", k |-> Min(sp)]
        ELSE IF Cardinality(gen) = 1 THEN [match |-> "SingleGeneric", k |-> Min(gen)]
        ELSE IF gen # {} THEN [match |-> "MultipleGeneric", k |-> Min(gen)]
        ELSE IF xd # {} THEN [match |-> "XDefault", k |-> Min(xd)]
        ELSE [match |-> "FirstItem", k |-> 1]

get_localized_text(x, ns, prop, generic_lang, specific_lang) ==
    LET alt == x.props[<<ns, prop>>].v
        c == ChooseLocalizedText(alt, generic_lang, specific_lang)
    IN  alt[c.k].value

\* an x-default item goes to the front, any other language to the end
AppendLangItem(alt, lang, value) ==
    IF lang = "x-default" THEN <<[lang |-> lang, value |-> value]>> \o alt
    ELSE Append(alt, [lang |-> lang, value |-> value])

SetLocalizedItems(alt, generic, specific, value) ==
    LET c == ChooseLocalizedText(alt, generic, specific)
        xd == {k \in 1..Len(alt) : alt[k].lang = "x-default"}
        old == alt[c.k].value
        withXd(s) == [k \in 1..Len(s) |->
                        IF k \in xd /\ s[k].value = old THEN [s[k] EXCEPT !.value = value]
                        ELSE s[k]]
        res ==
          CASE c.match = "NoValues" ->
                 IF specific = "x-default" THEN AppendLangItem(alt, "x-default", value)
                 ELSE Append(AppendLangItem(alt, "x-default", value),
                             [lang |-> specific, value |-> value])
            [] c.match = "SpecificMatch" /\ specific # "x-default" ->
                 [withXd(alt) EXCEPT ![c.k].value = value]
            [] c.match = "SpecificMatch" /\ specific = "x-default" ->
                 [k \in 1..Len(alt) |->
                    IF alt[k].value = old THEN [alt[k] EXCEPT !.value = value] ELSE alt[k]]
            [] c.match = "SingleGeneric" ->
                 [withXd(alt) EXCEPT ![c.k].value = value]
            [] c.match = "MultipleGeneric" -> AppendLangItem(alt, specific, value)
            [] c.match = "XDefault" ->
                 Append(IF Len(alt) = 1 THEN [alt EXCEPT ![c.k].value = value] ELSE alt,
                        [lang |-> specific, value |-> value])
            [] c.match = "FirstItem" -> AppendLangItem(alt, specific, value)
    IN  IF Len(res) = 1 /\ res[1].lang # "x-default"
        THEN AppendLangItem(res, "x-default", value)
        ELSE res

set_localized_text(x, ns, prop, generic_lang, specific_lang, prop_value) ==
    [x EXCEPT !.props[<<ns, prop>>] =
                  [ex |-> TRUE,
                   v |-> SetLocalizedItems(@.v, generic_lang, specific_lang, prop_value)],
              !.calls.set = @ + 1]

\* ------------------------------------------------------------------- Asset

NoError == "none"

\* flickr annotations: for each key of the json file, whether it is there and
\* its value (a string; for tags a list of records with a tag)
FlickrKeys == {"id", "name", "description", "albums", "tags"}
NoFlickrData == [k \in FlickrKeys |-> [present |-> FALSE, v |-> << >>]]

\* Asset(path): xmp is None, flickr_data is {}, xmp_updates is 0.  raised is
\* the exception that ended the last call, puts counts XMPFiles.put_xmp calls.
NewAsset(filename) ==
    [filename |-> filename, flickr_id |-> [none |-> TRUE, v |-> << >>],
     xmp |-> None, flickr_data |-> NoFlickrData, xmp_updates |-> 0,
     raised |-> NoError, puts |-> 0]

Digits == {"0", "1", "2", "3", "4", "5", "6", "7", "8", "9"}

AllDigits(s) == \A k \in 1..Len(s) : s[k] \in Digits

get_flickr_id(a) ==
    LET id_options == Split(Strip(a.filename, {"_", "o", ".", "j", "p", "g"}), "_")
        n == Len(id_options)
    IN  IF AllDigits(id_options[n])
        THEN [a EXCEPT !.flickr_id = [none |-> FALSE, v |-> id_options[n]]]
        ELSE IF n > 1 /\ AllDigits(id_options[n - 1])
        THEN [a EXCEPT !.flickr_id = [none |-> FALSE, v |-> id_options[n - 1]]]
        ELSE a

\* packet is what XMPFiles.get_xmp() gives for the file: None when it has none
get_xmp_packet(a, packet) == [a EXCEPT !.xmp = packet]

\* json is the content of photo_<flickr_id>.json, exists whether the directory
\* and the file exist
retrieve_flickr_json(a, exists, json) ==
    IF exists THEN [a EXCEPT !.flickr_data = json] ELSE a

\* mutant: putting the packet back starts xmp_updates again at 0
replace_xmp_packet_ResetCount(a, can_put_xmp) ==
    IF ~a.xmp.none /\ a.xmp_updates > 0
    THEN IF can_put_xmp THEN [a EXCEPT !.puts = @ + 1, !.xmp_updates = 0] ELSE a
    ELSE a

\* mutant: the packet is put back whatever xmp_updates is
replace_xmp_packet_NoCount(a, can_put_xmp) ==
    IF ~a.xmp.none
    THEN IF can_put_xmp THEN [a EXCEPT !.puts = @ + 1] ELSE a
    ELSE a

replace_xmp_packet(a, can_put_xmp) ==
    IF ~a.xmp.none /\ a.xmp_updates > 0
    THEN IF can_put_xmp THEN [a EXCEPT !.puts = @ + 1] ELSE a
    ELSE a

\* self.xmp.<method>(...) on None raises AttributeError
Raise(a) == [a EXCEPT !.raised = "AttributeError"]

IsArray(value_form) == value_form = "unordered" \/ value_form = "ordered"

RECURSIVE AppendFlickrItems_CountEmpty(_, _, _, _)
\* mutant: an empty item is not appended but is counted as an update
AppendFlickrItems_CountEmpty(a, ns, prop, items) ==
    IF items = << >> THEN a
    ELSE LET item == Head(items)
             b == IF item # << >>
                  THEN [a EXCEPT !.xmp = append_array_item(@, ns, prop, item),
                                 !.xmp_updates = @ + 1]
                  ELSE [a EXCEPT !.xmp_updates = @ + 1]
         IN  AppendFlickrItems_CountEmpty(b, ns, prop, Tail(items))

RECURSIVE AppendFlickrItems(_, _, _, _)
\* "for item in fd: if item != '': append_array_item(...); xmp_updates += 1"
AppendFlickrItems(a, ns, prop, items) ==
    IF items = << >> THEN a
    ELSE LET item == Head(items)
             b == IF item # << >>
                  THEN [a EXCEPT !.xmp = append_array_item(@, ns, prop, item),
                                 !.xmp_updates = @ + 1]
                  ELSE a
         IN  AppendFlickrItems(b, ns, prop, Tail(items))

\* set([d['tag'] for d in fd])
TagSet(fd) == {fd[k].tag : k \in 1..Len(fd)}

\* "if fd != '' and fd != []"
FlickrHasData(fd) == fd # << >>

\* mutant: the items found in the array are not removed from the flickr data
FlickrItemsLeft_NoRemove(fd, found) == TagSet(fd)

\* "if val in fd: fd.remove(val)" for every item found in the array
FlickrItemsLeft(fd, found) == TagSet(fd) \ found

\* one iteration of the loop over FLICKR_SCHEMA.items(); order is the order in
\* which the set of tags happens to be iterated
MergeFlickrKey(a, e, order) ==
    IF a.raised # NoError THEN a
    ELSE IF ~a.flickr_data[e.key].present THEN a
    ELSE LET fd == a.flickr_data[e.key].v
             ns == e.ns
             prop == e.prop
         IN  IF ~FlickrHasData(fd) THEN a
             ELSE IF a.xmp.none THEN Raise(a)
             ELSE IF does_property_exist(a.xmp, ns, prop)
             THEN IF IsArray(e.form)
                  THEN LET k == count_array_items(a.xmp, ns, prop)
                           found == {get_array_item(a.xmp, ns, prop, j + 1) : j \in 0..(k - 1)}
                           left == FlickrItemsLeft(fd, found)
                       IN  AppendFlickrItems(a, ns, prop,
                                             SelectSeq(order, LAMBDA item : item \in left))
                  ELSE IF e.form = "alternative"
                  THEN IF get_localized_text(a.xmp, ns, prop, "en", "en-US") # fd
                       THEN [a EXCEPT !.xmp = set_localized_text(@, ns, prop, "en", "x-default", fd),
                                      !.xmp_updates = @ + 1]
                       ELSE a
                  ELSE IF get_property(a.xmp, ns, prop) # fd
                       THEN [a EXCEPT !.xmp = set_property(@, ns, prop, fd),
                                      !.xmp_updates = @ + 1]
                       ELSE a
             ELSE IF IsArray(e.form)
                  THEN AppendFlickrItems(a, ns, prop, order)
                  ELSE IF e.form = "alternative"
                  THEN [a EXCEPT !.xmp = set_localized_text(@, ns, prop, "en", "x-default", fd),
                                 !.xmp_updates = @ + 1]
                  ELSE [a EXCEPT !.xmp = set_property(@, ns, prop, fd),
                                 !.xmp_updates = @ + 1]

RECURSIVE MergeFlickrFrom(_, _, _)
MergeFlickrFrom(a, k, order) ==
    IF k > Len(FLICKR_SCHEMA) THEN a
    ELSE MergeFlickrFrom(MergeFlickrKey(a, FLICKR_SCHEMA[k], order), k + 1, order)

merge_flickr_data(a, order) == MergeFlickrFrom(a, 1, order)

\* the orders in which merge_flickr_data may iterate the set of tags
TagOrders(a) ==
    IF a.flickr_data["tags"].present THEN Orders(TagSet(a.flickr_data["tags"].v))
    ELSE {<< >>}

InSchema(prefix, prop) ==
    \E k \in 1..NumFields : <<SCHEMA[k].prefix>> = prefix /\ <<SCHEMA[k].prop>> = prop

SchemaField(prefix, prop) ==
    SCHEMA[CHOOSE k \in 1..NumFields : <<SCHEMA[k].prefix>> = prefix /\ <<SCHEMA[k].prop>> = prop]

RECURSIVE AppendCsvItems_SkipEmpty(_, _, _, _)
\* mutant: an empty element is neither appended nor counted
AppendCsvItems_SkipEmpty(a, ns, prop, value) ==
    IF value = << >> THEN a
    ELSE AppendCsvItems_SkipEmpty(
             IF Head(value) # << >>
             THEN [a EXCEPT !.xmp = append_array_item(@, ns, prop, Head(value)),
                            !.xmp_updates = @ + 1]
             ELSE a,
             ns, prop, Tail(value))

RECURSIVE AppendCsvItems(_, _, _, _)
\* "for val in value: append_array_item(...); xmp_updates += 1"
AppendCsvItems(a, ns, prop, value) ==
    IF value = << >> THEN a
    ELSE AppendCsvItems([a EXCEPT !.xmp = append_array_item(@, ns, prop, Head(value)),
                                  !.xmp_updates = @ + 1],
                        ns, prop, Tail(value))

\* mutant: an empty cell is merged like any other
CsvHasData_Always(value) == TRUE

\* "if value != ''"
CsvHasData(value) == value # << >>

\* [v.strip(" ") for v in value.split(",")]
CsvList(value) ==
    LET parts == Split(value, ",") IN [k \in 1..Len(parts) |-> Strip(parts[k], {" "})]

\* one iteration of the loop over metadata.items(); a key is a sequence of
\* name tokens and ":" tokens
MergeCsvEntry(a, key0, value) ==
    IF a.raised # NoError THEN a
    ELSE IF ~CsvHasData(value) THEN a
    ELSE LET key == Split(key0, ":")
         IN  IF Len(key) # 2 THEN a
             ELSE IF ~InSchema(key[1], key[2]) THEN a
             ELSE LET f == SchemaField(key[1], key[2])
                      prop == f.prop
                      value_form == f.form
                      ns == get_namespace_for_prefix(f.prefix)
                  IN  IF a.xmp.none THEN Raise(a)
                      ELSE LET prop_exists == does_property_exist(a.xmp, ns, prop)
                           IN  IF value_form = "simple"
                               THEN IF ~prop_exists \/ get_property(a.xmp, ns, prop) # value
                                    THEN [a EXCEPT !.xmp = set_property(@, ns, prop, value),
                                                   !.xmp_updates = @ + 1]
                                    ELSE a
                               ELSE IF IsArray(value_form)
                               THEN LET b == IF prop_exists
                                             THEN [a EXCEPT !.xmp = delete_property(@, ns, prop)]
                                             ELSE a
                                    IN  AppendCsvItems(b, ns, prop, CsvList(value))
                               ELSE IF ~prop_exists
                                       \/ get_localized_text(a.xmp, ns, prop, "en", "x-default") # value
                                    THEN [a EXCEPT !.xmp = set_localized_text(@, ns, prop, "en",
                                                                              "x-default", value),
                                                   !.xmp_updates = @ + 1]
                                    ELSE a

RECURSIVE MergeCsvFrom_StopAtSkipped(_, _, _)
\* mutant: a key that is malformed or not in SCHEMA ends the loop
MergeCsvFrom_StopAtSkipped(a, metadata, k) ==
    IF k > Len(metadata) THEN a
    ELSE LET key == Split(metadata[k].key, ":")
         IN  IF CsvHasData(metadata[k].value) /\ (Len(key) # 2 \/ ~InSchema(key[1], key[2]))
             THEN a
             ELSE MergeCsvFrom_StopAtSkipped(
                      MergeCsvEntry(a, metadata[k].key, metadata[k].value), metadata, k + 1)

RECURSIVE MergeCsvFrom(_, _, _)
MergeCsvFrom(a, metadata, k) ==
    IF k > Len(metadata) THEN a
    ELSE MergeCsvFrom(MergeCsvEntry(a, metadata[k].key, metadata[k].value), metadata, k + 1)

\* metadata is the row's dictionary, as the sequence of its items()
merge_csv_data(a, metadata) == MergeCsvFrom(a, metadata, 1)

\* the value retrieve_xmp_metadata appends for one schema field
RetrieveField(a, f) ==
    LET ns == get_namespace_for_prefix(f.prefix)
        prop == f.prop
    IN  IF a.xmp.none THEN << >>
        ELSE IF ~does_property_exist(a.xmp, ns, prop) THEN << >>
        ELSE IF IsArray(f.form)
        THEN LET k == count_array_items(a.xmp, ns, prop)
                 arr == [j \in 1..k |-> get_array_item(a.xmp, ns, prop, (j - 1) + 1)]
             IN  Join(<<",", " ">>, arr)
        ELSE IF f.form = "alternative"
        THEN get_localized_text(a.xmp, ns, prop, "en", "en-US")
        ELSE get_property(a.xmp, ns, prop)

\* mutant: the fields are gone through from the last of SCHEMA to the first
retrieve_xmp_metadata_Reversed(a) ==
    <<a.filename>> \o [k \in 1..NumFields |-> RetrieveField(a, SCHEMA[NumFields + 1 - k])]

\* mutant: the list does not start with the filename
retrieve_xmp_metadata_NoFilename(a) == [k \in 1..NumFields |-> RetrieveField(a, SCHEMA[k])]

\* [filename, value of field 1, ..., value of field NumFields]
retrieve_xmp_metadata(a) ==
    <<a.filename>> \o [k \in 1..NumFields |-> RetrieveField(a, SCHEMA[k])]

\* ------------------------------------------------------------------ inputs

xmpNS == get_namespace_for_prefix("xmp")
dcNS == get_namespace_for_prefix("dc")

Prop(v) == [ex |-> TRUE, v |-> v]
Item(lang, value) == [lang |-> lang, value |-> value]

\* what a file's xmp:Rating, dc:subject and dc:title may hold
RatingProps == {NoProp, Prop(<<"b">>)}
SubjectProps == {NoProp, Prop(<< <<"a">>, <<"b">> >>), Prop(<< <<"b">> >>)}
TitleProps ==
    {NoProp,
     Prop(<<Item("x-default", <<"b">>)>>),
     Prop(<<Item("x-default", <<"b">>), Item("en-US", <<"c">>)>>),
     Prop(<<Item("fr", <<"b">>)>>)}

\* the packets get_xmp() may give: the other properties do not exist
FilePackets ==
    {[none |-> FALSE,
      props |-> [k \in PropKeys |->
                   IF k = <<xmpNS, "Rating">> THEN r
                   ELSE IF k = <<dcNS, "subject">> THEN s
                   ELSE IF k = <<dcNS, "title">> THEN t
                   ELSE NoProp],
      calls |-> NoCalls] : r \in RatingProps, s \in SubjectProps, t \in TitleProps}

Absent == [present |-> FALSE, v |-> << >>]
Given(v) == [present |-> TRUE, v |-> v]
Tag(s) == [tag |-> s]

\* the contents of a flickr json file
FlickrFiles ==
    {[id |-> d, name |-> n, description |-> Absent, albums |-> Given(<< >>), tags |-> g] :
        d \in {Absent, Given(<<"1">>), Given(<<"2">>)},
        n \in {Given(<< >>), Given(<<"a">>)},
        g \in {Absent, Given(<< >>), Given(<<Tag(<<"a">>), Tag(<<"c">>)>>),
               Given(<<Tag(<<"c">>), Tag(<< >>), Tag(<<"c">>)>>)}}

\* the columns of the csv file, in file order: three schema fields, a key with
\* one part and a key that is not in SCHEMA between them
kRating == <<"xmp", ":", "Rating">>
kOnePart == <<"Rating">>
kSubject == <<"dc", ":", "subject">>
kNotInSchema == <<"dc", ":", "Rating">>
kTitle == <<"dc", ":", "title">>
Columns == <<kRating, kOnePart, kSubject, kNotInSchema, kTitle>>

\* the cells a column may hold: "", "a", and for dc:subject "b, a" and "a,"
ColumnValues(key) ==
    IF key = kSubject THEN {<< >>, <<"a">>, <<"b", ",", " ", "a">>, <<"a", ",">>}
    ELSE {<< >>, <<"a">>}

Entry(key, value) == [key |-> key, value |-> value]

\* load_csv: a row has every column of the file, "" where the cell is empty
Rows ==
    {<<Entry(Columns[1], v1), Entry(Columns[2], v2), Entry(Columns[3], v3),
       Entry(Columns[4], v4), Entry(Columns[5], v5)>> :
        v1 \in ColumnValues(Columns[1]), v2 \in ColumnValues(Columns[2]),
        v3 \in ColumnValues(Columns[3]), v4 \in ColumnValues(Columns[4]),
        v5 \in ColumnValues(Columns[5])}

TheFilename == <<"1", "_", "o", ".", "j", "p", "g">>

\* --------------------------------------------- Spec: one Asset, its methods

Call(op, metadata, order, pre) ==
    [op |-> op, metadata |-> metadata, order |-> order, pre |-> pre]

MainIdle ==
    /\ assets = << >>
    /\ files = << >>
    /\ args = [read |-> FALSE, write |-> FALSE, mode |-> "none"]
    /\ csv_metadata = << >>
    /\ i = 0
    /\ pc = "idle"
    /\ data = << >>

Init ==
    /\ asset = NewAsset(TheFilename)
    /\ last = Call("init", << >>, << >>, NewAsset(TheFilename))
    /\ ret = << >>
    /\ nops = 0
    /\ MainIdle

CanCall == last.op # "init" /\ asset.raised = NoError /\ nops < MaxOps

GetXmpPacket ==
    /\ last.op = "init"
    /\ \E packet \in FilePackets \cup {None} :
          asset' = get_xmp_packet(asset, packet)
    /\ last' = Call("get_xmp_packet", << >>, << >>, asset)
    /\ UNCHANGED <<ret, nops>>
    /\ UNCHANGED mainVars

\* the flickr branch of main on one asset: get_flickr_id, retrieve_flickr_json
\* if an id was found, merge_flickr_data if there is flickr data
FlickrBranch(a, exists, json, order) ==
    LET b == get_flickr_id(a)
    IN  IF b.flickr_id.none THEN b
        ELSE LET c == retrieve_flickr_json(b, exists, json)
             IN  IF c.flickr_data # NoFlickrData THEN merge_flickr_data(c, order) ELSE c

MergeFlickr ==
    /\ CanCall
    /\ \E json \in FlickrFiles, exists \in BOOLEAN :
          LET loaded == retrieve_flickr_json(asset, exists, json)
          IN  \E order \in TagOrders(loaded) :
                 /\ asset' = FlickrBranch(asset, exists, json, order)
                 /\ last' = Call("merge_flickr_data", << >>, order, loaded)
    /\ nops' = nops + 1
    /\ UNCHANGED ret
    /\ UNCHANGED mainVars

MergeCsv ==
    /\ CanCall
    /\ \E metadata \in Rows :
          /\ asset' = merge_csv_data(asset, metadata)
          /\ last' = Call("merge_csv_data", metadata, << >>, asset)
    /\ nops' = nops + 1
    /\ UNCHANGED ret
    /\ UNCHANGED mainVars

Retrieve ==
    /\ CanCall
    /\ ret' = retrieve_xmp_metadata(asset)
    /\ last' = Call("retrieve_xmp_metadata", << >>, << >>, asset)
    /\ nops' = nops + 1
    /\ UNCHANGED asset
    /\ UNCHANGED mainVars

Replace ==
    /\ CanCall
    /\ \E can_put_xmp \in BOOLEAN :
          asset' = replace_xmp_packet(asset, can_put_xmp)
    /\ last' = Call("replace_xmp_packet", << >>, << >>, asset)
    /\ nops' = nops + 1
    /\ UNCHANGED ret
    /\ UNCHANGED mainVars

Next == GetXmpPacket \/ MergeFlickr \/ MergeCsv \/ Retrieve \/ Replace

Spec == Init /\ [][Next]_vars

\* ------------------------------------------ SpecMain: main over a batch

\* the file names load_files finds: the second holds no flickr id
FileName(k) ==
    IF k = 2 THEN <<"a", ".", "j", "p", "g">>
    ELSE <<"1", "_", "o", ".", "j", "p", "g">>

\* what get_xmp() may give for a file of the batch
MainPackets ==
    {None} \cup {p \in FilePackets : ~p.props[<<xmpNS, "Rating">>].ex
                                     /\ ~p.props[<<dcNS, "title">>].ex
                                     /\ p.props[<<dcNS, "subject">>].v # << <<"b">> >>}

\* the flickr json files of the batch
MainJsons == {f \in FlickrFiles : ~f.id.present /\ f.name.v = << >> /\ Len(f.tags.v) # 3}

\* the rows of the csv file of the batch
MainRows ==
    {r \in Rows : /\ r[1].value = << >> /\ r[5].value = << >>
                  /\ r[2].value = r[4].value
                  /\ r[3].value \in {<< >>, <<"b", ",", " ", "a">>}}

\* csv_metadata: for each asset, whether its filename is a key and the row
NoRow == [present |-> FALSE, row |-> << >>]
CsvFiles(n) == [1..n -> {NoRow} \cup {[present |-> TRUE, row |-> r] : r \in MainRows}]

AssetIdle ==
    /\ asset = NewAsset(TheFilename)
    /\ last = Call("idle", << >>, << >>, NewAsset(TheFilename))
    /\ ret = << >>
    /\ nops = 0

\* main up to the loop: parse_args, load_files, load_csv
InitMain ==
    /\ AssetIdle
    /\ \E n \in 1..MaxItems :
          /\ assets = [k \in 1..n |-> NewAsset(FileName(k))]
          /\ files = [k \in 1..n |-> FileName(k)]
          /\ \E r \in BOOLEAN, w \in BOOLEAN, m \in {"none", "csv", "flickr"} :
                /\ args = [read |-> r, write |-> w, mode |-> m]
                /\ IF m = "csv" THEN csv_metadata \in CsvFiles(n)
                   ELSE csv_metadata = [k \in 1..n |-> NoRow]
    /\ i = 1
    /\ pc = "get"
    /\ data = << >>

\* csv_metadata != {}
CsvLoaded == \E k \in DOMAIN csv_metadata : csv_metadata[k].present

\* asset.get_xmp_packet(); asset.get_xmp_dict()
MainGetXmp ==
    /\ pc = "get"
    /\ \E packet \in MainPackets :
          assets' = [assets EXCEPT ![i] = get_xmp_packet(@, packet)]
    /\ pc' = "merge"
    /\ UNCHANGED <<files, args, csv_metadata, i, data>>
    /\ UNCHANGED assetVars

\* the flickr branch, or the csv branch, or neither; an exception raised by
\* a merge is caught nowhere and ends main
MainMerge ==
    /\ pc = "merge"
    /\ \E b \in
          IF args.mode = "flickr"
          THEN {FlickrBranch(assets[i], exists, json, order) :
                   exists \in BOOLEAN, json \in MainJsons,
                   order \in Orders({<<"a">>, <<"c">>}) \cup {<< >>}}
          ELSE IF CsvLoaded /\ csv_metadata[i].present
          THEN {merge_csv_data(assets[i], csv_metadata[i].row)}
          ELSE {assets[i]} :
          /\ assets' = [assets EXCEPT ![i] = b]
          /\ pc' = IF b.raised # NoError THEN "aborted" ELSE "write"
    /\ UNCHANGED <<files, args, csv_metadata, i, data>>
    /\ UNCHANGED assetVars

\* "if args.write: if asset.xmp is not None: asset.replace_xmp_packet()",
\* then the next asset
MainWrite ==
    /\ pc = "write"
    /\ \E can_put_xmp \in BOOLEAN :
          assets' = [assets EXCEPT ![i] =
                        IF args.write /\ ~@.xmp.none
                        THEN replace_xmp_packet(@, can_put_xmp) ELSE @]
    /\ i' = i + 1
    /\ pc' = IF i + 1 > Len(assets) THEN "read" ELSE "get"
    /\ UNCHANGED <<files, args, csv_metadata, data>>
    /\ UNCHANGED assetVars

\* after the loop: "if args.read: data.append(asset.retrieve_xmp_metadata())"
MainRead ==
    /\ pc = "read"
    /\ data' = IF args.read
               THEN [k \in 1..Len(assets) |-> retrieve_xmp_metadata(assets[k])]
               ELSE << >>
    /\ pc' = "done"
    /\ UNCHANGED <<assets, files, args, csv_metadata, i>>
    /\ UNCHANGED assetVars

NextMain == MainGetXmp \/ MainMerge \/ MainWrite \/ MainRead

SpecMain == InitMain /\ [][NextMain]_vars

\* ------------------------------------------------------------------ claims

subjectKey == <<dcNS, "subject">>
titleKey == <<dcNS, "title">>
ratingKey == <<xmpNS, "Rating">>
instructionsKey == <<get_namespace_for_prefix("photoshop"), "Instructions">>

\* the cell of a column in a row
Cell(metadata, key) ==
    LET ks == {k \in 1..Len(metadata) : metadata[k].key = key}
    IN  IF ks = {} THEN << >> ELSE metadata[Min(ks)].value

Count(s, x) == Cardinality({k \in 1..Len(s) : s[k] = x})

AfterCsvMerge == last.op = "merge_csv_data" /\ asset.raised = NoError
AfterFlickrMerge == last.op = "merge_flickr_data" /\ asset.raised = NoError

\* the comma-split, whitespace-trimmed, non-empty elements of a cell
NonEmptyElements(value) ==
    LET parts == Split(value, ",")
        trimmed == [k \in 1..Len(parts) |-> Strip(parts[k], {" "})]
    IN  SelectSeq(trimmed, LAMBDA v : v # << >>)

\* C1: after merge_csv_data with a non-empty dc:subject cell, whatever the
\* packet held, the dc:subject array is exactly the comma-split, trimmed,
\* non-empty elements of the cell, in that order.
C1_TabularArrayFullReplace ==
    (AfterCsvMerge /\ Cell(last.metadata, kSubject) # << >>)
        => asset.xmp.props[subjectKey] = Prop(NonEmptyElements(Cell(last.metadata, kSubject)))

\* C2: after merge_flickr_data, every item of the pre-merge dc:subject array
\* is still in the array, as many times as before (an item already present is
\* never appended), and the array is no shorter.
C2_AdditiveNoDuplication ==
    AfterFlickrMerge =>
        LET pre == last.pre.xmp.props[subjectKey].v
            post == asset.xmp.props[subjectKey].v
        IN  /\ Range(pre) \subseteq Range(post)
            /\ Len(post) >= Len(pre)
            /\ \A x \in Range(pre) : Count(post, x) = Count(pre, x)
            /\ last.pre.xmp.props[subjectKey].ex => asset.xmp.props[subjectKey].ex

\* C2 witness: tags "a" and "c" were merged into the array ["a", "b"]: "a"
\* was not appended again, "c" was.
C2_Witness ==
    /\ AfterFlickrMerge
    /\ last.pre.xmp.props[subjectKey].v = << <<"a">>, <<"b">> >>
    /\ TagSet(last.pre.flickr_data["tags"].v) = {<<"a">>, <<"c">>}
    /\ asset.xmp.props[subjectKey].v = << <<"a">>, <<"b">>, <<"c">> >>

SameFlickrMergeAgain ==
    /\ last.op = "merge_flickr_data" /\ last'.op = "merge_flickr_data"
    /\ last'.pre.flickr_data = last.pre.flickr_data
    /\ ~FlickrHasData(last.pre.flickr_data["tags"].v)

SameCsvMergeAgain ==
    /\ last.op = "merge_csv_data" /\ last'.op = "merge_csv_data"
    /\ last'.metadata = last.metadata
    /\ Cell(last.metadata, kSubject) = << >>

\* C3: a merge of simple and alternative fields that is run a second time
\* with the same data, by either entry point, writes nothing and leaves
\* xmp_updates as it was.
C3_SecondMergeAddsNothing ==
    [][(SameFlickrMergeAgain \/ SameCsvMergeAgain)
          => (asset'.xmp_updates = asset.xmp_updates /\ asset'.xmp = asset.xmp)]_vars

\* the place of a schema field in the list retrieve_xmp_metadata returns
PlaceOf(prefix, prop) ==
    1 + CHOOSE k \in 1..NumFields : SCHEMA[k].prefix = prefix /\ SCHEMA[k].prop = prop

Written(key) == asset.xmp.props[key] # last.pre.xmp.props[key]

\* C4: retrieve_xmp_metadata right after a merge that wrote a field gives the
\* merged value for a simple or alternative field, and the array's elements
\* joined with ", " for an array field.
C4_ExtractionRoundTrip ==
    LET r == retrieve_xmp_metadata(asset)
    IN  /\ AfterCsvMerge =>
              /\ Written(ratingKey) => r[PlaceOf("xmp", "Rating")] = Cell(last.metadata, kRating)
              /\ Written(titleKey) => r[PlaceOf("dc", "title")] = Cell(last.metadata, kTitle)
              /\ Written(subjectKey) =>
                    r[PlaceOf("dc", "subject")] = Join(<<",", " ">>, asset.xmp.props[subjectKey].v)
        /\ AfterFlickrMerge =>
              /\ Written(instructionsKey) =>
                    r[PlaceOf("photoshop", "Instructions")] = last.pre.flickr_data["id"].v
              /\ Written(titleKey) => r[PlaceOf("dc", "title")] = last.pre.flickr_data["name"].v
              /\ Written(subjectKey) =>
                    r[PlaceOf("dc", "subject")] = Join(<<",", " ">>, asset.xmp.props[subjectKey].v)

AfterRetrieveWithoutPacket == last.op = "retrieve_xmp_metadata" /\ last.pre.xmp.none

\* C5 as stated: without a packet retrieve_xmp_metadata returns NumFields
\* values, all of them empty strings.
C5_AllEmptyOfSchemaLength ==
    AfterRetrieveWithoutPacket
        => (Len(ret) = NumFields /\ \A k \in 1..Len(ret) : ret[k] = << >>)

\* C5: without a packet retrieve_xmp_metadata does not fail and returns the
\* filename followed by one empty string for each of the NumFields fields.
C5_FilenameThenEmptyStrings ==
    AfterRetrieveWithoutPacket
        => /\ asset.raised = NoError
           /\ Len(ret) = NumFields + 1
           /\ ret[1] = asset.filename
           /\ \A k \in 2..Len(ret) : ret[k] = << >>

\* C5 witness: retrieve_xmp_metadata has run on an asset whose xmp is None.
C5_Witness == AfterRetrieveWithoutPacket /\ Len(ret) > 1

\* C6: in a run of main, put_xmp is called for an asset only if --write was
\* given, the asset has a packet and its xmp_updates is greater than 0.
C6_WriteBackGated ==
    \A k \in 1..Len(assets) :
        assets[k].puts > 0 => (args.write /\ ~assets[k].xmp.none /\ assets[k].xmp_updates > 0)

\* C6 witness: one asset was put back after a merge, another one with a
\* packet and no updates was not.
C6_Witness ==
    /\ pc = "done"
    /\ args.write
    /\ \E k \in 1..Len(assets) : assets[k].puts = 1
    /\ \E k \in 1..Len(assets) :
          ~assets[k].xmp.none /\ assets[k].xmp_updates = 0 /\ assets[k].puts = 0

\* the property a csv key names, for the keys that are in SCHEMA
TargetOf(key) ==
    LET parts == Split(key, ":")
        f == SchemaField(parts[1], parts[2])
    IN  <<get_namespace_for_prefix(f.prefix), f.prop>>

KeySkipped(key) ==
    LET parts == Split(key, ":") IN Len(parts) # 2 \/ ~InSchema(parts[1], parts[2])

FlickrEmpty(d, key) == d[key].present /\ d[key].v = << >>

\* C7: a field whose incoming value is "" or [] is left alone by both merges:
\* its property is as before; and when no field has data, nothing is written,
\* xmp_updates is as before and nothing is raised, also without a packet.
C7_EmptyInputSkipped ==
    /\ last.op = "merge_csv_data" =>
          /\ \A k \in 1..Len(last.metadata) :
                (last.metadata[k].value = << >> /\ ~KeySkipped(last.metadata[k].key))
                    => asset.xmp.props[TargetOf(last.metadata[k].key)]
                         = last.pre.xmp.props[TargetOf(last.metadata[k].key)]
          /\ (\A k \in 1..Len(last.metadata) : last.metadata[k].value = << >>)
                => asset = last.pre
    /\ last.op = "merge_flickr_data" =>
          /\ \A k \in 1..Len(FLICKR_SCHEMA) :
                FlickrEmpty(last.pre.flickr_data, FLICKR_SCHEMA[k].key)
                    => asset.xmp.props[<<FLICKR_SCHEMA[k].ns, FLICKR_SCHEMA[k].prop>>]
                         = last.pre.xmp.props[<<FLICKR_SCHEMA[k].ns, FLICKR_SCHEMA[k].prop>>]
          /\ (\A k \in 1..Len(FLICKR_SCHEMA) :
                 ~FlickrHasData(last.pre.flickr_data[FLICKR_SCHEMA[k].key].v))
                => (asset.xmp = last.pre.xmp /\ asset.xmp_updates = last.pre.xmp_updates
                    /\ asset.raised = NoError)

\* C7 witness: merge_csv_data wrote xmp:Rating while the dc:subject and
\* dc:title cells were empty and both properties existed.
C7_Witness ==
    /\ AfterCsvMerge
    /\ Cell(last.metadata, kSubject) = << >> /\ Cell(last.metadata, kTitle) = << >>
    /\ last.pre.xmp.props[subjectKey].ex /\ last.pre.xmp.props[titleKey].ex
    /\ asset.xmp_updates = last.pre.xmp_updates + 1

\* C8: a merge with data, asked of an asset whose xmp is None, is skipped:
\* nothing is raised and xmp_updates stays 0.
C8_MergeWithoutPacketSkipped ==
    (last.op \in {"merge_csv_data", "merge_flickr_data"} /\ last.pre.xmp.none)
        => (asset.raised = NoError /\ asset.xmp_updates = 0)

\* C9: main never ends before the loop has been over every asset.
C9_EveryItemProcessed ==
    /\ pc # "aborted"
    /\ pc \in {"read", "done"} => i = Len(assets) + 1

\* the row without the entries merge_csv_data skips for their key
WithoutSkipped(metadata) == SelectSeq(metadata, LAMBDA e : ~KeySkipped(e.key))

\* C10: merge_csv_data gives the same packet, xmp_updates and outcome as on
\* the row without the entries whose key has not two parts or is not in
\* SCHEMA, and a row of such entries only changes nothing.
C10_BadKeysSkipped ==
    last.op = "merge_csv_data" =>
        /\ asset = merge_csv_data(last.pre, WithoutSkipped(last.metadata))
        /\ (\A k \in 1..Len(last.metadata) :
               KeySkipped(last.metadata[k].key) \/ last.metadata[k].value = << >>)
              => asset = last.pre

\* C10 witness: a row with a one-part key and a key that is not in SCHEMA,
\* both with a value, before dc:title, which was merged.
C10_Witness ==
    /\ AfterCsvMerge
    /\ Cell(last.metadata, kOnePart) # << >> /\ Cell(last.metadata, kNotInSchema) # << >>
    /\ Cell(last.metadata, kTitle) # << >>
    /\ Written(titleKey)

AfterRetrieve == last.op = "retrieve_xmp_metadata"

\* C11: retrieve_xmp_metadata, whatever the packet holds, makes no writing
\* call, leaves the packet, xmp_updates and the rest of the asset as they were,
\* raises nothing, and returns after the filename one value per field of
\* SCHEMA, in SCHEMA's order: "" for a property that does not exist, the value
\* of a simple property, the items of an array joined with ", ", the value of
\* one of the items of an alternative array.
C11_ExtractionReadOnly ==
    AfterRetrieve =>
        /\ asset = last.pre
        /\ asset.xmp.calls = last.pre.xmp.calls
        /\ asset.xmp_updates = last.pre.xmp_updates
        /\ asset.raised = NoError
        /\ Len(ret) = NumFields + 1
        /\ \A k \in 1..NumFields :
              LET p == asset.xmp.props[<<get_namespace_for_prefix(SCHEMA[k].prefix), SCHEMA[k].prop>>]
              IN  IF asset.xmp.none \/ ~p.ex THEN ret[k + 1] = << >>
                  ELSE IF SCHEMA[k].form = "simple" THEN ret[k + 1] = p.v
                  ELSE IF IsArray(SCHEMA[k].form) THEN ret[k + 1] = Join(<<",", " ">>, p.v)
                  ELSE \E j \in 1..Len(p.v) : ret[k + 1] = p.v[j].value

\* C11 witness: retrieve_xmp_metadata ran after a merge had written the
\* packet, and gave values for xmp:Rating, dc:subject and dc:title.
C11_Witness ==
    /\ AfterRetrieve
    /\ asset.xmp_updates > 0
    /\ ret[PlaceOf("xmp", "Rating")] # << >>
    /\ ret[PlaceOf("dc", "subject")] # << >>
    /\ ret[PlaceOf("dc", "title")] # << >>

\* the other cells of the row, or the other flickr fields, carry no data
OnlyCsvCell(key) ==
    \A k \in 1..Len(last.metadata) :
        (last.metadata[k].key # key /\ ~KeySkipped(last.metadata[k].key))
            => last.metadata[k].value = << >>

OnlyFlickrKey(key) ==
    \A k \in 1..Len(FLICKR_SCHEMA) :
        FLICKR_SCHEMA[k].key # key => ~FlickrHasData(last.pre.flickr_data[FLICKR_SCHEMA[k].key].v)

\* what the simple-field rule makes of a merge whose only data is v for key
ScalarRule(key, v, only) ==
    /\ asset.xmp.props[key] = Prop(v)
    /\ only =>
          IF last.pre.xmp.props[key] = Prop(v)
          THEN asset.xmp = last.pre.xmp /\ asset.xmp_updates = last.pre.xmp_updates
          ELSE /\ asset.xmp_updates = last.pre.xmp_updates + 1
               /\ asset.xmp.calls = [last.pre.xmp.calls EXCEPT !.set = @ + 1]

\* C12: after a merge with a non-empty value v for a simple field
\* (merge_csv_data: xmp:Rating, merge_flickr_data: id to
\* photoshop:Instructions) the property exists with value v; when that is the
\* merge's only data, xmp_updates went up by exactly 1 with one set_property
\* call if the property did not exist or had another value, and nothing
\* changed if it already had the value v.
C12_ScalarMergeRule ==
    /\ (AfterCsvMerge /\ Cell(last.metadata, kRating) # << >>)
          => ScalarRule(ratingKey, Cell(last.metadata, kRating), OnlyCsvCell(kRating))
    /\ (AfterFlickrMerge /\ FlickrHasData(last.pre.flickr_data["id"].v))
          => ScalarRule(instructionsKey, last.pre.flickr_data["id"].v, OnlyFlickrKey("id"))

\* C12 witness: xmp:Rating did not exist, a first merge_csv_data set it with
\* one update, and the same merge again left xmp_updates at 1.
C12_Witness ==
    /\ AfterCsvMerge /\ nops = 2
    /\ OnlyCsvCell(kRating)
    /\ Cell(last.metadata, kRating) # << >>
    /\ last.pre.xmp.props[ratingKey] = Prop(Cell(last.metadata, kRating))
    /\ last.pre.xmp.calls.set = 1
    /\ asset.xmp_updates = 1

\* what the alternative-field rule, reading with "en"/"en-US" and writing
\* with "en"/"x-default", makes of a merge whose only data is v for key
AltRule(key, v) ==
    IF \/ ~last.pre.xmp.props[key].ex
       \/ get_localized_text(last.pre.xmp, key[1], key[2], "en", "en-US") # v
    THEN /\ asset.xmp = set_localized_text(last.pre.xmp, key[1], key[2], "en", "x-default", v)
         /\ asset.xmp_updates = last.pre.xmp_updates + 1
    ELSE /\ asset.xmp = last.pre.xmp
         /\ asset.xmp_updates = last.pre.xmp_updates

AltRuleInFlickrMerge ==
    (AfterFlickrMerge /\ FlickrHasData(last.pre.flickr_data["name"].v) /\ OnlyFlickrKey("name"))
        => AltRule(titleKey, last.pre.flickr_data["name"].v)

AltRuleInCsvMerge ==
    (AfterCsvMerge /\ Cell(last.metadata, kTitle) # << >> /\ OnlyCsvCell(kTitle))
        => AltRule(titleKey, Cell(last.metadata, kTitle))

\* C13: in merge_flickr_data and in merge_csv_data alike, a non-empty value
\* for an alternative field (dc:title) is written with "en"/"x-default" and
\* one update exactly when the property does not exist or the value read
\* with "en"/"en-US" differs from it; otherwise nothing is written.
C13_LocalizedMergeRule == AltRuleInFlickrMerge /\ AltRuleInCsvMerge

\* the non-empty incoming tags that are not in the array yet
NewTags == {x \in TagSet(last.pre.flickr_data["tags"].v) :
               x # << >> /\ x \notin Range(last.pre.xmp.props[subjectKey].v)}

\* C14: after merge_flickr_data with tags, the items dc:subject had keep
\* their places and order, the new items follow them, each once, and the
\* number of append_array_item calls, and with no other data the increase
\* of xmp_updates, is the number of non-empty tags that were not in the array.
C14_AdditiveOrderAndCount ==
    (AfterFlickrMerge /\ FlickrHasData(last.pre.flickr_data["tags"].v)) =>
        LET pre == last.pre.xmp.props[subjectKey].v
            post == asset.xmp.props[subjectKey].v
        IN  /\ Len(post) = Len(pre) + Cardinality(NewTags)
            /\ SubSeq(post, 1, Len(pre)) = pre
            /\ Range(SubSeq(post, Len(pre) + 1, Len(post))) = NewTags
            /\ asset.xmp.calls.append = last.pre.xmp.calls.append + Cardinality(NewTags)
            /\ asset.xmp.calls.delete = last.pre.xmp.calls.delete
            /\ OnlyFlickrKey("tags")
                  => asset.xmp_updates = last.pre.xmp_updates + Cardinality(NewTags)

\* C14 witness: the array was ["a", "b"], the tags {"a", "c"} and nothing
\* else were merged: the array is ["a", "b", "c"] after one update.
C14_Witness ==
    /\ AfterFlickrMerge /\ OnlyFlickrKey("tags")
    /\ last.pre.xmp.props[subjectKey] = Prop(<< <<"a">>, <<"b">> >>)
    /\ NewTags = {<<"c">>}
    /\ asset.xmp.props[subjectKey] = Prop(<< <<"a">>, <<"b">>, <<"c">> >>)
    /\ asset.xmp_updates = last.pre.xmp_updates + 1

\* C15: xmp_updates is 0 until the first merge, is never less than before the
\* last call, is left as it was by retrieve_xmp_metadata and by
\* replace_xmp_packet (also when the packet was put back), and always equals
\* the number of set_property, set_localized_text and append_array_item calls
\* made on the packet; delete_property calls are not counted.
C15_MutationCounter ==
    /\ asset.xmp_updates = asset.xmp.calls.set + asset.xmp.calls.append
    /\ asset.xmp_updates >= last.pre.xmp_updates
    /\ last.op \in {"init", "get_xmp_packet"} => asset.xmp_updates = 0
    /\ last.op \in {"retrieve_xmp_metadata", "replace_xmp_packet"}
          => asset.xmp_updates = last.pre.xmp_updates

\* C15 witness: a merge deleted an array and appended two items, then the
\* packet was put back: xmp_updates is still 2.
C15_Witness ==
    /\ last.op = "replace_xmp_packet"
    /\ asset.puts = 1
    /\ asset.xmp.calls = [set |-> 0, append |-> 2, delete |-> 1]
    /\ asset.xmp_updates = 2

\* C16: merge_csv_data with a non-empty dc:subject cell makes as many
\* append_array_item calls as the cell has comma-separated elements (at least
\* one), and with no other data raises xmp_updates by that number, also when
\* the array held exactly these elements; an array that existed is deleted
\* once, and after any merge_csv_data that deleted an array the array exists
\* again and xmp_updates is greater than 0.
C16_TabularArrayCount ==
    /\ (AfterCsvMerge /\ Cell(last.metadata, kSubject) # << >>) =>
          LET n == Len(Split(Cell(last.metadata, kSubject), ","))
          IN  /\ n >= 1
              /\ asset.xmp.calls.append = last.pre.xmp.calls.append + n
              /\ asset.xmp.calls.delete
                    = last.pre.xmp.calls.delete + (IF last.pre.xmp.props[subjectKey].ex THEN 1 ELSE 0)
              /\ asset.xmp.props[subjectKey].ex
              /\ Len(asset.xmp.props[subjectKey].v) = n
              /\ OnlyCsvCell(kSubject) => asset.xmp_updates = last.pre.xmp_updates + n
    /\ (last.op = "merge_csv_data" /\ asset.xmp.calls.delete > last.pre.xmp.calls.delete) =>
          /\ asset.xmp.calls.append > last.pre.xmp.calls.append
          /\ asset.xmp.props[subjectKey].ex
          /\ asset.xmp_updates > 0

\* C16 witness: dc:subject was ["a"] and the cell "a", the only data, was
\* merged: the array is ["a"] again, after one delete and one more update.
C16_Witness ==
    /\ AfterCsvMerge /\ OnlyCsvCell(kSubject)
    /\ Cell(last.metadata, kSubject) = <<"a">>
    /\ last.pre.xmp.props[subjectKey] = Prop(<< <<"a">> >>)
    /\ asset.xmp.props[subjectKey] = Prop(<< <<"a">> >>)
    /\ asset.xmp.calls.delete = last.pre.xmp.calls.delete + 1
    /\ asset.xmp_updates = last.pre.xmp_updates + 1

\* the properties a row has data for
CsvTargets(metadata) ==
    {TargetOf(metadata[k].key) :
        k \in {j \in 1..Len(metadata) :
                  metadata[j].value # << >> /\ ~KeySkipped(metadata[j].key)}}

\* the properties the flickr data has data for
FlickrTargets(d) ==
    {<<FLICKR_SCHEMA[k].ns, FLICKR_SCHEMA[k].prop>> :
        k \in {j \in 1..Len(FLICKR_SCHEMA) :
                  d[FLICKR_SCHEMA[j].key].present /\ FlickrHasData(d[FLICKR_SCHEMA[j].key].v)}}

\* C17: merge_csv_data leaves as it was every property whose key is not in
\* the row with a non-empty value, and merge_flickr_data every property that
\* is not the target of a FLICKR_SCHEMA key with data, so at most
\* photoshop:Instructions, dc:title, dc:description and dc:subject change.
C17_MergeFrame ==
    /\ last.op = "merge_csv_data" =>
          \A p \in PropKeys \ CsvTargets(last.metadata) :
              asset.xmp.props[p] = last.pre.xmp.props[p]
    /\ last.op = "merge_flickr_data" =>
          /\ \A p \in PropKeys \ FlickrTargets(last.pre.flickr_data) :
                asset.xmp.props[p] = last.pre.xmp.props[p]
          /\ \A p \in PropKeys :
                asset.xmp.props[p] # last.pre.xmp.props[p]
                    => p \in {instructionsKey, titleKey, subjectKey, <<dcNS, "description">>}

\* C17 witness: merge_csv_data replaced the dc:subject array while the
\* dc:title cell was empty: dc:title, which existed, is as before.
C17_Witness ==
    /\ AfterCsvMerge
    /\ Cell(last.metadata, kTitle) = << >>
    /\ last.pre.xmp.props[titleKey].ex
    /\ last.pre.xmp.props[subjectKey].ex
    /\ asset.xmp.props[subjectKey] # last.pre.xmp.props[subjectKey]
    /\ asset.xmp.props[titleKey] = last.pre.xmp.props[titleKey]

====
